---- MODULE Spec2Model ----
(***************************************************************************)
(* Model of cashflows/basics.py: the time-value-of-money solver `tvmm` and *)
(* the amortization schedule builder `amortize`.                           *)
(*                                                                         *)
(* Numbers.  Python floats are modelled as exact rationals <<n, d>> with   *)
(* d > 0 in lowest terms.  Two special values share the shape: None is     *)
(* <<0, 0>> and NaN (any non-finite float: nan, inf, -inf) is <<1, 0>>.    *)
(* Amounts, rates and period counts are drawn from small sets for which    *)
(* every solved value is rational; calls whose result would be irrational  *)
(* (a fractional power, a logarithm that is no whole number) are outside   *)
(* the model (see Representable).                                          *)
(***************************************************************************)
EXTENDS Integers, Sequences, FiniteSets, TLC

VARIABLES call, out, prev

vars == <<call, out, prev>>

(***************************************************************************)
(* Bounds of the model.                                                    *)
(***************************************************************************)
MaxAmt == 1
MaxNper == 3

(***************************************************************************)
(* Rational arithmetic.                                                    *)
(***************************************************************************)
None == <<0, 0>>
NaN == <<1, 0>>
\* a finite float the model's rationals cannot hold: an irrational value, or one
\* whose numerator or denominator exceeds MaxInt (outside the model's domain)
Unrep == <<2, 0>>

Abs(x) == IF x < 0 THEN -x ELSE x

RECURSIVE GCD(_, _)
GCD(a, b) == IF b = 0 THEN a ELSE GCD(b, a % b)

Norm(n, d) ==
    LET g == GCD(Abs(n), Abs(d))
        s == IF d < 0 THEN -1 ELSE 1
    IN  <<s * (n \div g), s * (d \div g)>>

Rat(k) == <<k, 1>>
Zero == Rat(0)
One == Rat(1)

IsNum(x) == x[2] > 0
IsNone(x) == x = None
IsIntegral(x) == IsNum(x) /\ x[2] = 1

Neg(x) == IF IsNum(x) THEN <<-x[1], x[2]>> ELSE x

\* the result of an operation one of whose operands is no rational
Bad(x, y) ==
    IF x # NaN /\ y # NaN /\ (x = Unrep \/ y = Unrep) THEN Unrep ELSE NaN

MaxInt == 2 ^ 30
Fits(a, b) == b = 0 \/ Abs(a) <= MaxInt \div Abs(b)

Add(x, y) ==
    IF ~IsNum(x) \/ ~IsNum(y) THEN Bad(x, y)
    ELSE LET g == GCD(x[2], y[2])
             yd == y[2] \div g
             xd == x[2] \div g
         IN  IF Fits(x[1], yd) /\ Fits(y[1], xd) /\ Fits(xd, y[2])
             THEN Norm(x[1] * yd + y[1] * xd, xd * y[2])
             ELSE Unrep

Sub(x, y) == Add(x, Neg(y))

Mul(x, y) ==
    IF ~IsNum(x) \/ ~IsNum(y) THEN Bad(x, y)
    ELSE LET g1 == GCD(Abs(x[1]), y[2])
             g2 == GCD(Abs(y[1]), x[2])
         IN  IF Fits(x[1] \div g1, y[1] \div g2) /\ Fits(x[2] \div g2, y[2] \div g1)
             THEN <<(x[1] \div g1) * (y[1] \div g2), (x[2] \div g2) * (y[2] \div g1)>>
             ELSE Unrep

\* numpy float division: a zero divisor gives a non-finite value, no exception
Div(x, y) ==
    IF ~IsNum(x) \/ ~IsNum(y) THEN Bad(x, y)
    ELSE IF y[1] = 0 THEN NaN
    ELSE Mul(x, Norm(y[2], y[1]))

RECURSIVE Pow(_, _)
Pow(q, k) == IF k = 0 THEN One ELSE Mul(q, Pow(q, k - 1))

\* Python int(x): truncation toward zero
Trunc(x) ==
    IF x[1] >= 0 THEN x[1] \div x[2] ELSE -((-x[1]) \div x[2])

Ceiling(x) == -((-x[1]) \div x[2])

(***************************************************************************)
(* The numpy financial functions tvmm calls (basics.py lines 301-309).     *)
(* Each solves  fv + pv*(1+rate)^nper + pmt*(1+rate*when)/rate*            *)
(* ((1+rate)^nper - 1) = 0  (for rate = 0: fv + pv + pmt*nper = 0)  for    *)
(* one of its terms.                                                       *)
(***************************************************************************)
Hundred == Rat(100)

\* (1+rate)**nper
Temp(rate, nper) ==
    IF ~IsNum(rate) \/ ~IsNum(nper) THEN Bad(rate, nper)
    ELSE IF rate = Zero THEN One
    ELSE IF IsIntegral(nper) /\ nper[1] \in 0..(MaxNper + 1) THEN Pow(Add(One, rate), nper[1])
    ELSE Unrep

\* where(rate == 0, nper, (1+rate*when)*(temp-1)/rate)
Fact(rate, nper, when) ==
    IF rate = Zero THEN nper
    ELSE Div(Mul(Add(One, Mul(rate, Rat(when))), Sub(Temp(rate, nper), One)), rate)

\* the left-hand side of the annuity equation
Annuity(rate, nper, pmt, pv, fv, when) ==
    Add(fv, Add(Mul(pv, Temp(rate, nper)), Mul(pmt, Fact(rate, nper, when))))

NumpyPv(rate, nper, pmt, fv, when) ==
    Div(Neg(Add(fv, Mul(pmt, Fact(rate, nper, when)))), Temp(rate, nper))

\* a future value that takes every payment at the end of its period
NumpyFvOrdinary(rate, nper, pmt, pv, when) ==
    Neg(Add(Mul(pv, Temp(rate, nper)), Mul(pmt, Fact(rate, nper, 0))))

NumpyFv(rate, nper, pmt, pv, when) ==
    Neg(Add(Mul(pv, Temp(rate, nper)), Mul(pmt, Fact(rate, nper, when))))

NumpyPmt(rate, nper, pv, fv, when) ==
    Div(Neg(Add(fv, Mul(pv, Temp(rate, nper)))), Fact(rate, nper, when))

\* log(x)/log(q) when it is a whole number k with |k| <= MaxNper + 1
LogRatio(q, x) ==
    IF ~IsNum(x) THEN x
    ELSE IF x[1] <= 0 THEN NaN
    ELSE LET up == {k \in 0..(MaxNper + 1) : Pow(q, k) = x}
             down == {k \in 1..(MaxNper + 1) : Mul(Pow(q, k), x) = One}
         IN  IF up # {} THEN Rat(CHOOSE k \in up : TRUE)
             ELSE IF down # {} THEN Rat(-(CHOOSE k \in down : TRUE))
             ELSE Unrep

\* The float quotient of two logarithms is exact or off by one unit in the
\* last place; eps in {-1, 0, 1} is the direction of that rounding.
Ulp == <<1, 1000000>>

NumpyNper(rate, pmt, pv, fv, when, eps) ==
    IF rate = Zero THEN Div(Neg(Add(fv, pv)), pmt)
    ELSE LET z == Div(Mul(pmt, Add(One, Mul(rate, Rat(when)))), rate)
             b == LogRatio(Add(One, rate), Div(Add(Neg(fv), z), Add(pv, z)))
         IN  IF IsNum(b) THEN Add(b, Mul(Rat(eps), Ulp)) ELSE b

\* periodic rates the root finder of numpy.rate can return in the model
RateGrid == {Zero, <<1, 2>>, One}

RateRoots(nper, pmt, pv, fv, when) ==
    {r \in RateGrid : Annuity(r, nper, pmt, pv, fv, when) = Zero}

\* numpy.rate: a root of the annuity equation, found by Newton's method;
\* root is the one the iteration converges to.
NumpyRate(nper, pmt, pv, fv, when, root) ==
    IF root \in RateRoots(nper, pmt, pv, fv, when) THEN root ELSE Unrep

(***************************************************************************)
(* tvmm (basics.py lines 239-397).  a is the record of the call's          *)
(* arguments; o is what the floating-point library decides: the rounding   *)
(* of a logarithm quotient (o.eps) and the root Newton's method lands on   *)
(* (o.root).                                                               *)
(***************************************************************************)
\* pmt = 0.0000001 (basics.py lines 296 and 493)
SmallPmtDen == 10000000
SmallPmt == <<1, SmallPmtDen>>

\* a count that overlooks nrate
NumNoneMissesNrate(a) ==
    (IF IsNone(a.pval) THEN 1 ELSE 0) + (IF IsNone(a.fval) THEN 1 ELSE 0)
    + (IF IsNone(a.nper) THEN 1 ELSE 0) + (IF IsNone(a.pmt) THEN 1 ELSE 0)

NumNone(a) ==
    (IF IsNone(a.pval) THEN 1 ELSE 0) + (IF IsNone(a.fval) THEN 1 ELSE 0)
    + (IF IsNone(a.nper) THEN 1 ELSE 0) + (IF IsNone(a.pmt) THEN 1 ELSE 0)
    + (IF IsNone(a.nrate) THEN 1 ELSE 0)

\* a zero payment is kept as it is
EffectivePmtKeepsZero(a) == IF NumNone(a) = 0 THEN None ELSE a.pmt

\* the supplied payment is kept when all five parameters are given
EffectivePmtKeepsSupplied(a) == IF a.pmt = Zero THEN SmallPmt ELSE a.pmt

\* lines 292-296 and 489-493: the payment the solver works with
EffectivePmt(a) ==
    LET p == IF NumNone(a) = 0 THEN None ELSE a.pmt
    IN  IF p = Zero THEN SmallPmt ELSE p

\* nrate/100/pyr
PeriodicRate(nrate, pyr) == Div(Div(nrate, Hundred), Rat(pyr))

\* lines 290 and 487: raise ValueError('One of the params must be set to None')
ParamError == "ValueError: One of the params must be set to None"

Raised(err) ==
    [status |-> "raised", error |-> err, solved |-> "none", result |-> None,
     printed |-> FALSE]

Returned(which, value, noprint) ==
    [status |-> "returned", error |-> "none", solved |-> which,
     result |-> IF noprint THEN value ELSE None, printed |-> ~noprint]

\* lines 300-309: which parameter the call solves for
TvmmTarget(a) ==
    LET pmt == EffectivePmt(a)
    IN  IF IsNone(a.pval) THEN "pval"
        ELSE IF IsNone(a.fval) THEN "fval"
        ELSE IF IsNone(a.nper) THEN "nper"
        ELSE IF IsNone(pmt) THEN "pmt"
        ELSE "nrate"

TvmmResult(a, o) ==
    LET pmt == EffectivePmt(a)
        rate == PeriodicRate(a.nrate, a.pyr)
        which == TvmmTarget(a)
    IN  CASE which = "pval" -> NumpyPv(rate, a.nper, pmt, a.fval, a.due)
          [] which = "fval" -> NumpyFv(rate, a.nper, pmt, a.pval, a.due)
          [] which = "nper" -> NumpyNper(rate, pmt, a.pval, a.fval, a.due, o.eps)
          [] which = "pmt" -> NumpyPmt(rate, a.nper, a.pval, a.fval, a.due)
          [] which = "nrate" ->
                Mul(Mul(NumpyRate(a.nper, pmt, a.pval, a.fval, a.due, o.root), Hundred),
                    Rat(a.pyr))

\* a solver that hands out the result the last tvmm call left behind
TvmmStale(a, o) ==
    IF NumNone(a) > 1 THEN Raised(ParamError)
    ELSE Returned(TvmmTarget(a),
                  IF call.fn = "tvmm" /\ out.status = "returned" /\ call.a.noprint
                  THEN out.result ELSE TvmmResult(a, o),
                  a.noprint)

Tvmm(a, o) ==
    IF NumNone(a) > 1 THEN Raised(ParamError)
    ELSE Returned(TvmmTarget(a), TvmmResult(a, o), a.noprint)

(***************************************************************************)
(* amortize (basics.py lines 457-560).                                     *)
(***************************************************************************)
\* lines 495-504: which parameter amortize asks tvmm for
AmortizeTarget(a) ==
    IF IsNone(a.pval) THEN "pval"
    ELSE IF IsNone(a.fval) THEN "fval"
    ELSE IF IsNone(a.nper) THEN "nper"
    ELSE IF IsNone(EffectivePmt(a)) THEN "pmt"
    ELSE "nrate"

\* the assignment of the solved value to the missing parameter
Assign(b, which, value) ==
    CASE which = "pval" -> [b EXCEPT !.pval = value]
      [] which = "fval" -> [b EXCEPT !.fval = value]
      [] which = "nper" -> [b EXCEPT !.nper = value]
      [] which = "pmt" -> [b EXCEPT !.pmt = value]
      [] which = "nrate" -> [b EXCEPT !.nrate = value]

\* lines 489-493: the arguments amortize hands to tvmm
InnerArgs(a) == [a EXCEPT !.pmt = EffectivePmt(a), !.noprint = TRUE]

\* lines 495-504: the five parameters after the missing one is solved
Resolve(a, o) == Assign(InnerArgs(a), AmortizeTarget(a), Tvmm(InnerArgs(a), o).result)

\* the periodic rate taken for the annual rate
ErateIgnoresPyr(nrate, pyr) == Div(nrate, Hundred)

\* line 506
Erate(nrate, pyr) == Div(Div(nrate, Rat(pyr)), Hundred)

\* a true ceiling
RoundNperCeiling(nper) == Ceiling(nper)

\* int(nper) + 1, also for a whole nper
RoundNperIntPlusOne(nper) == Trunc(nper) + 1

\* lines 508-509: if int(nper) != nper: nper = int(nper + 0.9)
RoundNper(nper) ==
    IF Rat(Trunc(nper)) # nper THEN Trunc(Add(nper, <<9, 10>>)) ELSE nper[1]

\* row 0 keeps the payment under due = 0
PmtListNoSeed(pmt, nper, due) ==
    [t \in 0..nper |-> IF due = 1 /\ t = nper THEN Zero ELSE pmt]

\* the last row keeps the payment under due = 1
PmtListNoFinal(pmt, nper, due) ==
    [t \in 0..nper |-> IF due = 0 /\ t = 0 THEN Zero ELSE pmt]

\* lines 518-524: the payment of every row
PmtList(pmt, nper, due) ==
    [t \in 0..nper |->
        IF due = 0 /\ t = 0 THEN Zero
        ELSE IF due = 1 /\ t = nper THEN Zero
        ELSE pmt]

\* a balance that the interest of the period is not added to
RembalNoInterest(pval, pmtl, erate, nper) ==
    LET rb[t \in 0..nper] ==
            IF t = 0 THEN Add(pval, pmtl[0]) ELSE Add(rb[t - 1], pmtl[t])
    IN  rb

\* lines 526-538: the walk over the periods 0..nper
Rembal(pval, pmtl, erate, nper) ==
    LET rb[t \in 0..nper] ==
            IF t = 0 THEN Add(pval, pmtl[0])
            ELSE Add(rb[t - 1], Add(pmtl[t], Mul(rb[t - 1], erate)))
    IN  rb

Begbal(pval, rembal, nper) ==
    [t \in 0..nper |-> IF t = 0 THEN pval ELSE rembal[t - 1]]

\* interest charged on the size of the balance
IpmtOnAbsBalance(begbal, erate, nper) ==
    [t \in 0..nper |->
        IF t = 0 THEN Zero ELSE Mul(<<Abs(begbal[t][1]), begbal[t][2]>>, erate)]

Ipmt(begbal, erate, nper) ==
    [t \in 0..nper |-> IF t = 0 THEN Zero ELSE Mul(begbal[t], erate)]

\* the interest subtracted from the payment
PpmtMinusInterest(pmtl, ipmt, nper) ==
    [t \in 0..nper |-> IF t = 0 THEN pmtl[0] ELSE Sub(pmtl[t], ipmt[t])]

Ppmt(pmtl, ipmt, nper) ==
    [t \in 0..nper |-> IF t = 0 THEN pmtl[0] ELSE Add(pmtl[t], ipmt[t])]

AmortizeRaised(err, which) ==
    [status |-> "raised", error |-> err, solved |-> which, printed |-> FALSE,
     returned |-> FALSE]

\* lines 540-560: the four lists, returned (noprint) or printed as a table
Rows(rembal, pval, pmtl, erate, nper, noprint) ==
    [status |-> "returned", error |-> "none", printed |-> ~noprint,
     returned |-> noprint, nper |-> nper,
     principal |-> Ppmt(pmtl, Ipmt(Begbal(pval, rembal, nper), erate, nper), nper),
     interest |-> Ipmt(Begbal(pval, rembal, nper), erate, nper),
     payment |-> pmtl,
     balance |-> rembal,
     begbal |-> Begbal(pval, rembal, nper)]

Walk(pval, pmtl, erate, nper, noprint) ==
    Rows(Rembal(pval, pmtl, erate, nper), pval, pmtl, erate, nper, noprint)

Schedule(r, nper, noprint) ==
    Walk(r.pval, PmtList(r.pmt, nper, r.due), Erate(r.nrate, r.pyr), nper, noprint)

\* lines 506-560, r being the resolved parameters
Build(a, r) ==
    \* line 508: int(nan), int(inf)
    IF ~IsNum(r.nper)
    THEN AmortizeRaised("ValueError: cannot convert float to integer", AmortizeTarget(a))
    \* line 512: [0] * (nper + 1) with a float nper, a solved nper that is whole
    ELSE IF IsNone(a.nper) /\ IsIntegral(r.nper)
    THEN AmortizeRaised("TypeError", AmortizeTarget(a))
    \* lines 521-526: pmt[0], pmt[nper], begbal[0] of an empty list
    ELSE IF RoundNper(r.nper) < 0 THEN AmortizeRaised("IndexError", AmortizeTarget(a))
    ELSE Schedule(r, RoundNper(r.nper), a.noprint)

Amortize(a, o) ==
    IF NumNone(a) > 1 THEN AmortizeRaised(ParamError, "none")
    ELSE Build(a, Resolve(a, o))

(***************************************************************************)
(* The calls of the model.                                                 *)
(***************************************************************************)
Amounts == {Rat(4 * k) : k \in -1..MaxAmt}
Nrates == {Rat(0), Rat(100)}
Pyrs == {1, 2}
Npers == {Rat(k) : k \in 0..MaxNper} \cup {<<21, 20>>, <<5, 2>>}

Args ==
    [pval : Amounts \cup {None}, fval : Amounts \cup {None}, pmt : Amounts \cup {None},
     nrate : Nrates \cup {None}, nper : Npers \cup {None}, due : {0, 1}, pyr : Pyrs,
     noprint : BOOLEAN]

NoOracle == [eps |-> 0, root |-> Zero]

\* what the library may decide for the call: the rounding of a logarithm
\* quotient, and the root of the rate equation
Oracles(a) ==
    IF NumNone(a) > 1 THEN {NoOracle}
    ELSE IF TvmmTarget(a) = "nper" /\ PeriodicRate(a.nrate, a.pyr) # Zero
    THEN [eps : {-1, 0, 1}, root : {Zero}]
    ELSE IF TvmmTarget(a) = "nrate" THEN [eps : {0}, root : RateGrid]
    ELSE {NoOracle}

\* The solved value is a rational of the model, or not finite.
InModel(a, o, value) ==
    /\ value # Unrep
    /\ o.eps # 0 => IsNum(value)
    /\ TvmmTarget(a) = "nrate" =>
          IsIntegral(a.nper) /\ a.nper[1] \in 0..(MaxNper + 1)

Representable(a, o) == NumNone(a) <= 1 => InModel(a, o, TvmmResult(a, o))

\* amortize walks at most MaxNper + 1 periods in the model
ShortWalk(a, nper) ==
    IsNum(nper) /\ ~(IsNone(a.nper) /\ IsIntegral(nper)) => RoundNper(nper) <= MaxNper + 1

\* every entry of the schedule is a rational of the model, or not finite
RationalRows(s) ==
    s.status = "returned" =>
        \A t \in 0..s.nper :
            s.balance[t] # Unrep /\ s.principal[t] # Unrep /\ s.interest[t] # Unrep

NoCall == [fn |-> "none"]
Idle == [status |-> "idle"]

Init ==
    /\ call = NoCall
    /\ out = Idle
    /\ prev = <<NoCall, Idle>>

\* one call of tvmm: the caller's record of the call and of its outcome
TvmmStep(a, o) ==
    /\ Representable(a, o)
    /\ call' = [fn |-> "tvmm", a |-> a, o |-> o]
    /\ out' = Tvmm(a, o)

\* one call of amortize
AmortizeStep(a, o) ==
    /\ Representable(InnerArgs(a), o)
    /\ NumNone(a) <= 1 => ShortWalk(a, Resolve(a, o).nper)
    /\ \E s \in {Amortize(a, o)} :
        /\ RationalRows(s)
        /\ call' = [fn |-> "amortize", a |-> a, o |-> o]
        /\ out' = s

CallTvmm ==
    /\ call = NoCall
    /\ \E a \in Args : \E o \in Oracles(a) : TvmmStep(a, o)
    /\ UNCHANGED prev

CallAmortize ==
    /\ call = NoCall
    /\ \E a \in Args : \E o \in Oracles(InnerArgs(a)) : AmortizeStep(a, o)
    /\ UNCHANGED prev

\* the same call with every supplied monetary input negated
NegArgs(a) == [a EXCEPT !.pval = Neg(a.pval), !.fval = Neg(a.fval), !.pmt = Neg(a.pmt)]

\* A second call of amortize, on the negated inputs.  IEEE arithmetic is
\* symmetric in the sign, so the library rounds and iterates as in the first call.
Negate ==
    /\ call.fn = "amortize"
    /\ prev[1] = NoCall
    /\ AmortizeStep(NegArgs(call.a), call.o)
    /\ prev' = <<call, out>>

Params == {"pval", "fval", "pmt", "nrate", "nper"}

\* the arguments of the second solve: the solved value in place, w unset
ReArgs(a, which, value, w) ==
    [f \in DOMAIN a |-> IF f = w THEN None ELSE IF f = which THEN value ELSE a[f]]

\* A second call of tvmm: the value solved by the first takes its place among
\* the arguments, and one of the original four, w, is solved for.
ReSolve ==
    /\ call.fn = "tvmm"
    /\ prev[1] = NoCall
    /\ NumNone(call.a) = 1
    /\ out.status = "returned"
    /\ call.a.noprint
    /\ IsNum(out.result)
    /\ \E w \in Params \ {out.solved} :
        \E a2 \in {ReArgs(call.a, out.solved, out.result, w)} :
            \E o2 \in Oracles(a2) : TvmmStep(a2, o2)
    /\ prev' = <<call, out>>

Next == CallTvmm \/ CallAmortize

Spec == Init /\ [][Next]_vars

\* a session of two amortize calls, the second on the negated inputs
NextSym == CallAmortize \/ Negate
SpecSym == Init /\ [][NextSym]_vars

\* a session of two tvmm calls, the second solving back
NextInv == CallTvmm \/ ReSolve
SpecInv == Init /\ [][NextInv]_vars

(***************************************************************************)
(* List-valued arguments.  A parameter is None, a scalar or a list; v     *)
(* holds its elements (one element for None and for a scalar).  An array  *)
(* is the numpy result, which is no list for isinstance(param, list).     *)
(***************************************************************************)
MaxLen == 3

NoneP == [kind |-> "none", v |-> <<None>>]
ScalarP(x) == [kind |-> "scalar", v |-> <<x>>]
ListP(s) == [kind |-> "list", v |-> s]
ArrayP(s) == [kind |-> "array", v |-> s]
IsListP(p) == p.kind = "list"

MaxOf(S) == CHOOSE m \in S : \A k \in S : k <= m

ListError == "Exception: Lists in parameters must the same length"

\* gcashcomp.py lines 116-119
Vars2listLength(params) ==
    MaxOf({1} \cup {Len(params[i].v) : i \in {j \in DOMAIN params : IsListP(params[j])}})

\* lines 120-123
Vars2listRaises(params) ==
    /\ Vars2listLength(params) > 1
    /\ \E i \in DOMAIN params :
          IsListP(params[i]) /\ Len(params[i].v) # Vars2listLength(params)

\* lines 124-130: a list as given, anything else replicated
Vars2listResult(params, length) ==
    [i \in DOMAIN params |->
        IF IsListP(params[i]) THEN params[i].v
        ELSE [k \in 1..length |-> IF params[i].kind = "array" THEN params[i].v ELSE params[i].v[1]]]

Vars2list(params) ==
    IF Vars2listRaises(params)
    THEN [status |-> "raised", error |-> ListError, result |-> <<>>]
    ELSE [status |-> "returned", error |-> "none",
          result |-> Vars2listResult(params, Vars2listLength(params))]

\* the values the list-valued calls of the model take, by position
ValueAt(f, i) ==
    CASE f = "pval" -> Rat(IF i % 2 = 1 THEN 4 ELSE -4)
      [] f = "fval" -> Rat(IF i % 2 = 1 THEN 0 ELSE 4)
      [] f = "pmt" -> Rat(IF i % 2 = 1 THEN -4 ELSE 4)
      [] f = "nrate" -> Rat(IF i % 2 = 1 THEN 0 ELSE 100)
      [] f = "nper" -> Rat(IF i % 2 = 1 THEN 1 ELSE 2)

Shapes(f) ==
    {NoneP, ScalarP(ValueAt(f, 1))}
        \cup {ListP([i \in 1..n |-> ValueAt(f, i)]) : n \in 1..MaxLen}

ListArgs ==
    [pval : Shapes("pval"), fval : Shapes("fval"), pmt : Shapes("pmt"),
     nrate : Shapes("nrate"), nper : Shapes("nper"),
     due : {0, 1}, pyr : {1}, noprint : BOOLEAN]

NumNoneP(a) == Cardinality({f \in Params : a[f].kind = "none"})

\* element i of a parameter under numpy's broadcasting
At(p, i) == IF IsListP(p) /\ Len(p.v) > 1 THEN p.v[i] ELSE p.v[1]

\* the scalar sub-problem at position i
Elem(a, i) ==
    [pval |-> At(a.pval, i), fval |-> At(a.fval, i),
     pmt |-> IF NumNoneP(a) = 0 THEN a.pmt.v[1] ELSE At(a.pmt, i),
     nrate |-> At(a.nrate, i), nper |-> At(a.nper, i),
     due |-> a.due, pyr |-> a.pyr, noprint |-> TRUE]

\* the parameters the numpy call receives (lines 292-293 drop a supplied pmt
\* when all five are given)
Used(a) == {f \in Params : a[f].kind # "none" /\ ~(NumNoneP(a) = 0 /\ f = "pmt")}

ListLens(a) == {Len(a[f].v) : f \in {g \in Used(a) : IsListP(a[g])}}

\* numpy broadcasts shapes (m,) and (n,) when m = n or one of them is 1
Broadcastable(a) == Cardinality(ListLens(a) \ {1}) <= 1

BroadcastLen(a) == MaxOf(ListLens(a) \cup {1})

BroadcastError == "ValueError: operands could not be broadcast together"
FormatError == "TypeError"

ListTarget(a) == TvmmTarget(Elem(a, 1))

\* lines 300-309 on arrays: the result, element by element
ResultList(a, o) == [i \in 1..BroadcastLen(a) |-> TvmmResult(Elem(a, i), o)]

ListOutcome(status, err, which, result, scalar, printed) ==
    [status |-> status, error |-> err, solved |-> which, result |-> result,
     scalar |-> scalar, printed |-> printed]

\* lines 317-335: the five parameters handed to vars2list, the solved one
\* being the numpy result
VerboseParams(a, which, result) ==
    [k \in 1..5 |->
        LET f == <<"pval", "fval", "nper", "pmt", "nrate">>[k]
        IN  IF f = which THEN (IF ListLens(a) = {} THEN ScalarP(result[1]) ELSE ArrayP(result))
            ELSE a[f]]

\* lines 339-397: the report of a call that passed vars2list
Report(a, which, length) ==
    IF length = 1
    THEN IF ListLens(a) = {}
         THEN ListOutcome("returned", "none", which, <<>>, TRUE, TRUE)
         ELSE ListOutcome("raised", FormatError, which, <<>>, FALSE, which # "pval")
    ELSE IF which = "pmt"
         THEN ListOutcome("returned", "none", which, <<>>, FALSE, TRUE)
         ELSE ListOutcome("raised", FormatError, which, <<>>, FALSE, FALSE)

Verbose(a, which, params) ==
    IF Vars2listRaises(params)
    THEN ListOutcome("raised", ListError, which, <<>>, FALSE, FALSE)
    ELSE Report(a, which, Vars2listLength(params))

TvmmList(a, o) ==
    IF NumNoneP(a) > 1
    THEN ListOutcome("raised", ParamError, "none", <<>>, FALSE, FALSE)
    ELSE IF ~Broadcastable(a)
    THEN ListOutcome("raised", BroadcastError, ListTarget(a), <<>>, FALSE, FALSE)
    ELSE IF a.noprint
    THEN ListOutcome("returned", "none", ListTarget(a), ResultList(a, o),
                     ListLens(a) = {}, FALSE)
    ELSE Verbose(a, ListTarget(a), VerboseParams(a, ListTarget(a), ResultList(a, o)))

\* every element of the result is a value of the model
RepresentableList(a, o) ==
    NumNoneP(a) <= 1 /\ Broadcastable(a) =>
        \A i \in 1..BroadcastLen(a) : Representable(Elem(a, i), o)

SomeList(a) == \E f \in Params : IsListP(a[f])

CallTvmmList ==
    /\ call = NoCall
    /\ \E a \in ListArgs :
        /\ SomeList(a)
        /\ \E o \in (IF NumNoneP(a) <= 1 THEN Oracles(Elem(a, 1)) ELSE {NoOracle}) :
            /\ RepresentableList(a, o)
            /\ call' = [fn |-> "tvmm_list", a |-> a, o |-> o]
            /\ out' = TvmmList(a, o)
    /\ UNCHANGED prev

\* the parameter lists handed to vars2list directly
ParamShapes ==
    {ScalarP(Rat(4))} \cup {ListP([i \in 1..n |-> Rat(i)]) : n \in 0..MaxLen}

CallVars2list ==
    /\ call = NoCall
    /\ \E n \in 1..3 : \E params \in [1..n -> ParamShapes] :
        /\ call' = [fn |-> "vars2list", params |-> params]
        /\ out' = Vars2list(params)
    /\ UNCHANGED prev

NextList == CallTvmmList \/ CallVars2list
SpecList == Init /\ [][NextList]_vars

(***************************************************************************)
(* iconv (basics.py lines 562-644), scalar arguments.                      *)
(***************************************************************************)
MaxPyr == 3

\* a count that overlooks prate
IconvNumNoneMissesPrate(a) ==
    (IF IsNone(a.nrate) THEN 1 ELSE 0) + (IF IsNone(a.erate) THEN 1 ELSE 0) + 1

\* lines 577-583
IconvNumNone(a) ==
    (IF IsNone(a.nrate) THEN 1 ELSE 0) + (IF IsNone(a.erate) THEN 1 ELSE 0)
    + (IF IsNone(a.prate) THEN 1 ELSE 0)

\* line 585 (the message quotes None in backticks)
IconvError == "ValueError: Two of the rates must be set to None"

\* the whole number whose p-th power is n, or -1
WholeRoot(n, p) ==
    LET roots == {k \in 0..(10 * (MaxPyr + 1)) : Pow(Rat(k), p) = Rat(n)}
    IN  IF roots = {} THEN -1 ELSE CHOOSE k \in roots : TRUE

RootFrom(n, d) == IF n < 0 \/ d < 0 THEN Unrep ELSE Norm(n, d)

\* numpy.power(y, 1 / p): the principal root, nan for a negative y unless
\* p = 1
RootOf(y, p) ==
    IF ~IsNum(y) THEN y
    ELSE IF p = 1 THEN y
    ELSE IF y[1] < 0 THEN NaN
    ELSE RootFrom(WholeRoot(y[1], p), WholeRoot(y[2], p))

\* 100 * (numpy.power(1 + rate / 100, pyr) - 1)
Compound(rate, p) ==
    Mul(Hundred, Sub(Pow(Add(One, Div(rate, Hundred)), p), One))

\* 100 * (numpy.power(1 + rate / 100, 1 / pyr) - 1)
Uncompound(rate, p) ==
    Mul(Hundred, Sub(RootOf(Add(One, Div(rate, Hundred)), p), One))

IconvReturned(given, first, second) ==
    [status |-> "returned", error |-> "none", given |-> given,
     first |-> first, second |-> second]

\* lines 608-619: (erate, prate)
FromNrate(nrate, p) ==
    IconvReturned("nrate", Compound(Div(nrate, Rat(p)), p), Div(nrate, Rat(p)))

\* the periodic rate returned for the nominal one
FromErateNoPyr(erate, p) ==
    IconvReturned("erate", Uncompound(erate, p), Uncompound(erate, p))

\* lines 621-632: (nrate, prate)
FromErate(erate, p) ==
    IconvReturned("erate", Mul(Rat(p), Uncompound(erate, p)), Uncompound(erate, p))

\* lines 634-644: (nrate, erate)
FromPrate(prate, p) ==
    IconvReturned("prate", Mul(Rat(p), prate), Compound(prate, p))

Iconv(a) ==
    IF IconvNumNone(a) # 2
    THEN [status |-> "raised", error |-> IconvError, given |-> "none",
          first |-> None, second |-> None]
    ELSE IF ~IsNone(a.nrate) THEN FromNrate(a.nrate, a.pyr)
    ELSE IF ~IsNone(a.erate) THEN FromErate(a.erate, a.pyr)
    ELSE FromPrate(a.prate, a.pyr)

Rates == {Rat(k) : k \in {-300, -100, -75, -50, 0, 50, 100, 125, 300, 700}}

IconvArgs ==
    [nrate : Rates \cup {None}, erate : Rates \cup {None},
     prate : Rates \cup {None}, pyr : 1..MaxPyr]

IconvStep(a) ==
    /\ \E r \in {Iconv(a)} :
          /\ r.first # Unrep /\ r.second # Unrep
          /\ out' = r
    /\ call' = [fn |-> "iconv", a |-> a]

CallIconv ==
    /\ call = NoCall
    /\ \E a \in IconvArgs : IconvStep(a)
    /\ UNCHANGED prev

\* the effective rate a conversion of a nominal rate returned, converted back
RoundTrip ==
    /\ call.fn = "iconv" /\ prev[1] = NoCall
    /\ out.status = "returned" /\ out.given = "nrate"
    /\ IconvStep([nrate |-> None, erate |-> out.first, prate |-> None,
                  pyr |-> call.a.pyr])
    /\ prev' = <<call, out>>

NextIconv == CallIconv \/ RoundTrip
SpecIconv == Init /\ [][NextIconv]_vars

(***************************************************************************)
(* Repeated calls: a call, any other call in between, the first call       *)
(* again.  prev keeps the first call and its outcome; its third entry is   *)
(* the call made in between (NoCall when there was none).                  *)
(***************************************************************************)
\* the first calls of these sessions: results returned, yearly periods
DetArgs == {a \in Args : a.noprint /\ a.pyr = 1}

FirstTvmm ==
    /\ call = NoCall
    /\ \E a \in DetArgs : \E o \in Oracles(a) : TvmmStep(a, o)
    /\ UNCHANGED prev

FirstAmortize ==
    /\ call = NoCall
    /\ \E a \in DetArgs : \E o \in Oracles(InnerArgs(a)) : AmortizeStep(a, o)
    /\ UNCHANGED prev

\* the call made in between
MeddleArgs ==
    [pval |-> Rat(4), fval |-> Zero, pmt |-> None, nrate |-> Rat(100),
     nper |-> Rat(2), due |-> 1, pyr |-> 1, noprint |-> TRUE]

Meddle ==
    /\ call.fn \in {"tvmm", "amortize"} /\ prev[1] = NoCall
    /\ TvmmStep(MeddleArgs, NoOracle) \/ AmortizeStep(MeddleArgs, NoOracle)
    /\ prev' = <<call, out>>

Again(first) ==
    IF first.fn = "tvmm" THEN TvmmStep(first.a, first.o)
    ELSE AmortizeStep(first.a, first.o)

Repeat ==
    /\ Len(prev) = 2
    /\ \/ /\ prev[1].fn \in {"tvmm", "amortize"}
          /\ Again(prev[1])
          /\ prev' = <<prev[1], prev[2], call>>
       \/ /\ prev[1] = NoCall /\ call.fn \in {"tvmm", "amortize"}
          /\ Again(call)
          /\ prev' = <<call, out, NoCall>>

NextDet == FirstTvmm \/ FirstAmortize \/ Meddle \/ Repeat
SpecDet == Init /\ [][NextDet]_vars

(***************************************************************************)
(* after_tax_cashflow (gcashcomp.py lines 133-173) on one cashflow and one *)
(* tax rate.  The heap holds the data of the time series objects; period t *)
(* of a series is entry t + 1 of its data.                                 *)
(***************************************************************************)
SeriesOf(values) == UNION {[1..n -> values] : n \in 1..MaxLen}
Cashflows == SeriesOf({Rat(-4), Zero, Rat(4)})
TaxRates == SeriesOf({Zero, Rat(10), Rat(50)})

Heap0(cflo) == [o \in {"cflo", "result"} |-> IF o = "cflo" THEN cflo ELSE <<>>]

\* TimeSeries.copy: a new object holding the same data
TsCopy(heap, src) == [heap EXCEPT !["result"] = heap[src]]

RangeError == "ValueError: time ranges differ"

\* verify_eq_time_range: the two series cover the same periods
EqTimeRange(x, y) == Len(x) = Len(y)

\* the taxed value stored in the cashflow handed in
TaxWriteInput(heap, t, rate) ==
    [heap EXCEPT !["cflo"][t] =
        IF heap["result"][t][1] > 0 THEN Mul(heap["result"][t], Div(rate, Hundred))
        ELSE Zero]

\* lines 166-169
TaxWrite(heap, t, rate) ==
    [heap EXCEPT !["result"][t] =
        IF heap["result"][t][1] > 0 THEN Mul(heap["result"][t], Div(rate, Hundred))
        ELSE Zero]

\* lines 165-169: the periods 1..n in turn
RECURSIVE TaxLoop(_, _, _)
TaxLoop(heap, tax, n) ==
    IF n = 0 THEN heap ELSE TaxWrite(TaxLoop(heap, tax, n - 1), n, tax[n])

AfterTaxOutcome(heap) ==
    [status |-> "returned", error |-> "none", result |-> heap["result"],
     cflo |-> heap["cflo"]]

AfterTaxCashflow(cflo, tax) ==
    IF ~EqTimeRange(cflo, tax)
    THEN [status |-> "raised", error |-> RangeError, result |-> <<>>, cflo |-> cflo]
    ELSE AfterTaxOutcome(TaxLoop(TsCopy(Heap0(cflo), "cflo"), tax, Len(cflo)))

CallAfterTax ==
    /\ call = NoCall
    /\ \E cflo \in Cashflows : \E tax \in TaxRates :
        /\ call' = [fn |-> "after_tax_cashflow", cflo |-> cflo, tax_rate |-> tax]
        /\ out' = AfterTaxCashflow(cflo, tax)
    /\ UNCHANGED prev

NextTax == CallAfterTax
SpecTax == Init /\ [][NextTax]_vars

(***************************************************************************)
(* Properties.                                                             *)
(***************************************************************************)
IsTvmm == call.fn = "tvmm"
IsAmortize == call.fn = "amortize"
\* amortize built a schedule
Built == IsAmortize /\ out.status = "returned"
\* the number of the five parameters the caller left unset
Unset(a) == Cardinality({f \in Params : a[f] = None})
\* the five parameters amortize walks with
Resolved == Resolve(call.a, call.o)
Positive(x) == IsNum(x) /\ x[1] > 0
Floor(x) == x[1] \div x[2]
\* the fractional part of x is at least 1/10
FracAtLeastTenth(x) == (x[1] % x[2]) * 10 >= x[2]

RECURSIVE SumTo(_, _)
SumTo(f, n) == IF n = 0 THEN Zero ELSE Add(SumTo(f, n - 1), f[n])

\* C1 as stated: a tvmm call with all five parameters supplied returns the
\* nominal rate solved from pval, fval, pmt and nper.
C1_SolvesRate ==
    IsTvmm /\ Unset(call.a) = 0 /\ call.a.noprint /\ Positive(call.a.nper) =>
        /\ out.status = "returned"
        /\ out.solved = "nrate"
        /\ call.a.noprint =>
              \E r \in RateGrid :
                  /\ Annuity(r, call.a.nper, call.a.pmt, call.a.pval, call.a.fval,
                             call.a.due) = Zero
                  /\ out.result = Mul(Mul(r, Hundred), Rat(call.a.pyr))

\* C1 amended: a tvmm call with all five parameters supplied solves for the
\* payment: it returns the pmt that satisfies the annuity equation for the
\* supplied pval, fval, nrate and nper, whatever pmt was supplied.
C1_SolvesPmt ==
    IsTvmm /\ Unset(call.a) = 0 =>
        /\ out.status = "returned"
        /\ out.solved = "pmt"
        /\ call.a.noprint /\ IsNum(out.result) =>
              Annuity(Div(call.a.nrate, Rat(100 * call.a.pyr)), call.a.nper, out.result,
                      call.a.pval, call.a.fval, call.a.due) = Zero
        /\ call.a.noprint /\ ~IsNum(out.result) => call.a.nper = Zero

C1_Witness ==
    /\ IsTvmm /\ Unset(call.a) = 0 /\ call.a.noprint
    /\ out.status = "returned" /\ IsNum(out.result)
    /\ call.a.pmt # Zero /\ out.result # call.a.pmt /\ out.result # Zero

\* C2: tvmm and amortize raise the parameter error, with nothing solved,
\* printed or returned, exactly when more than one of the five is unset.
C2_Underdetermined ==
    IsTvmm \/ IsAmortize =>
        /\ Unset(call.a) > 1 =>
              /\ out.status = "raised" /\ out.error = ParamError
              /\ out.solved = "none" /\ ~out.printed
              /\ IF IsTvmm THEN out.result = None ELSE ~out.returned
        /\ Unset(call.a) <= 1 => out.error # ParamError

C2_Witness == IsAmortize /\ Unset(call.a) = 2 /\ out.status = "raised"

\* the resolved parameters are finite numbers (a consistent parameter set)
Consistent(r) == IsNum(r.pval) /\ IsNum(r.fval) /\ IsNum(r.pmt) /\ IsNum(r.nrate)

\* C3 as stated: for due = 0 and a whole nper the principal of periods
\* 1..nper sums to fval - pval.
C3_SumIsFvalMinusPval ==
    /\ Built /\ call.a.due = 0 /\ IsIntegral(Resolved.nper) /\ Consistent(Resolved)
    /\ out.returned /\ out.nper >= 1
    =>  SumTo(out.principal, out.nper) = Sub(Resolved.fval, Resolved.pval)

\* C3 amended: for due = 0 and a whole nper the principal of periods
\* 1..nper sums to -fval - pval.
C3_SumIsMinusFvalMinusPval ==
    Built /\ call.a.due = 0 /\ IsIntegral(Resolved.nper) /\ Consistent(Resolved) =>
        SumTo(out.principal, out.nper) = Sub(Neg(Resolved.fval), Resolved.pval)

C3_Witness ==
    /\ Built /\ call.a.due = 0 /\ IsIntegral(Resolved.nper) /\ Consistent(Resolved)
    /\ out.nper >= 2 /\ Resolved.fval # Zero /\ Resolved.pval # Zero
    /\ Resolved.nrate # Zero

\* the outcome s2 is the elementwise negation of the outcome s1
NegatedOutcome(s1, s2) ==
    /\ s2.status = s1.status
    /\ s1.status = "returned" =>
          /\ s2.nper = s1.nper
          /\ \A t \in 0..s1.nper :
                /\ s2.principal[t] = Neg(s1.principal[t])
                /\ s2.interest[t] = Neg(s1.interest[t])
                /\ s2.payment[t] = Neg(s1.payment[t])
                /\ s2.balance[t] = Neg(s1.balance[t])

\* the call replaces a supplied zero payment by 0.0000001
ZeroPmtReplaced(a) == a.pmt = Zero /\ NumNone(a) = 1

\* C4 as stated: amortize on the negated monetary inputs returns the
\* elementwise negation of the four sequences, for any inputs.
C4_SignSymmetry ==
    prev[1].fn = "amortize" /\ call.a.noprint => NegatedOutcome(prev[2], out)

\* C4 amended: the same, unless a supplied pmt is exactly zero with one other
\* parameter unset (the zero is then replaced by +0.0000001 in both calls).
C4_SignSymmetryNonzeroPmt ==
    prev[1].fn = "amortize" /\ ~ZeroPmtReplaced(prev[1].a) => NegatedOutcome(prev[2], out)

C4_Witness ==
    /\ prev[1].fn = "amortize" /\ ~ZeroPmtReplaced(prev[1].a)
    /\ prev[2].status = "returned" /\ out.status = "returned"
    /\ out.nper >= 2
    /\ out.interest[2] # Zero /\ out.payment[1] # Zero /\ out.balance[2] # Zero

\* C5 as stated: a fractional number of periods is rounded up to the next
\* whole number.
C5_RoundsUp ==
    Built /\ call.o.eps = 0 /\ IsNum(Resolved.nper) /\ ~IsIntegral(Resolved.nper) =>
        out.nper = Ceiling(Resolved.nper)

\* C5 amended: a positive fractional number of periods is rounded up when its
\* fractional part is at least 0.1 and down when it is below 0.1.
C5_RoundsUpFromTenth ==
    Built /\ Positive(Resolved.nper) /\ ~IsIntegral(Resolved.nper) =>
        out.nper = IF FracAtLeastTenth(Resolved.nper) THEN Ceiling(Resolved.nper)
                   ELSE Floor(Resolved.nper)

C5_Witness ==
    /\ Built /\ call.o.eps = 0 /\ Positive(Resolved.nper) /\ ~IsIntegral(Resolved.nper)
    /\ ~FracAtLeastTenth(Resolved.nper)
    /\ out.nper = Floor(Resolved.nper)

\* C6: every schedule satisfies the row equations, with
\* erate = nrate / pyr / 100.
C6_RowInvariants ==
    Built =>
        /\ \A t \in 0..out.nper : out.balance[t] = Add(out.begbal[t], out.principal[t])
        /\ \A t \in 1..out.nper :
              /\ out.begbal[t] = out.balance[t - 1]
              /\ out.interest[t] =
                    Mul(out.begbal[t], Div(Resolved.nrate, Rat(100 * call.a.pyr)))
              /\ out.principal[t] = Add(out.payment[t], out.interest[t])

C6_Witness ==
    /\ Built /\ out.nper >= 2 /\ call.a.pyr = 2
    /\ out.interest[2] # Zero /\ out.interest[2] # out.interest[1]
    /\ out.payment[2] # Zero

\* C7: the four returned sequences all have length nper + 1, nper being the
\* supplied or solved number of periods, rounded if fractional.
C7_Lengths ==
    Built /\ out.returned =>
        /\ DOMAIN out.principal = 0..out.nper
        /\ DOMAIN out.interest = 0..out.nper
        /\ DOMAIN out.payment = 0..out.nper
        /\ DOMAIN out.balance = 0..out.nper
        /\ IsIntegral(Resolved.nper) => out.nper = Resolved.nper[1]
        /\ Positive(Resolved.nper) /\ ~IsIntegral(Resolved.nper) =>
              out.nper \in {Floor(Resolved.nper), Ceiling(Resolved.nper)}

C7_Witness ==
    /\ Built /\ out.returned /\ IsNone(call.a.pmt)
    /\ ~IsIntegral(Resolved.nper) /\ out.nper = 3
    /\ DOMAIN out.balance = 0..3

\* C8: for due = 0 row 0 is a seed row without payment and rows 1..nper
\* carry the periodic payment.
C8_SeedRow ==
    Built /\ call.a.due = 0 =>
        /\ out.begbal[0] = Resolved.pval
        /\ out.payment[0] = Zero
        /\ out.interest[0] = Zero
        /\ out.principal[0] = Zero
        /\ out.balance[0] = Resolved.pval
        /\ \A t \in 1..out.nper : out.payment[t] = Resolved.pmt

C8_Witness ==
    /\ Built /\ call.a.due = 0 /\ out.nper >= 2
    /\ Positive(Resolved.pval) /\ IsNum(Resolved.pmt) /\ Resolved.pmt # Zero

\* the rows of a schedule under due = 1
DueRows ==
    /\ out.payment[out.nper] = Zero
    /\ out.payment[0] = Resolved.pmt
    /\ out.principal[0] = Resolved.pmt
    /\ out.interest[0] = Zero
    /\ out.balance[0] = Add(Resolved.pval, Resolved.pmt)
    /\ \A t \in 1..(out.nper - 1) : out.payment[t] = Resolved.pmt

\* C9 as stated: for due = 1 the last row has no payment and row 0 carries
\* the first payment.
C9_DueRows == Built /\ call.a.due = 1 /\ call.o.eps = 0 => DueRows

\* C9 amended: the same for schedules of at least one period (with nper = 0
\* row 0 is the last row and its payment is zero).
C9_DueRowsFromOnePeriod == Built /\ call.a.due = 1 /\ out.nper >= 1 => DueRows

C9_Witness ==
    /\ Built /\ call.a.due = 1 /\ out.nper >= 2
    /\ IsNum(Resolved.pmt) /\ Resolved.pmt # Zero /\ Resolved.pval # Zero

\* the first of the two tvmm calls of a session and what it returned
First == prev[1]
FirstOut == prev[2]
\* the decimals the module's doctest compares (basics.py line 17)
TolDen == 100
\* x and y agree to the doctest's decimals
Close(x, y) ==
    /\ IsNum(x) /\ IsNum(y)
    /\ \E d \in {Sub(x, y)} : IsNum(d) /\ Abs(d[1]) <= d[2] \div TolDen

\* the second call solved back the parameter w and reproduced its first value
Reproduced ==
    /\ out.status = "returned"
    /\ Close(out.result, First.a[out.solved])

\* the four parameters of b other than w admit one value of w only
Determined(b, w) ==
    \E r \in {PeriodicRate(b.nrate, b.pyr)} :
        CASE w = "pmt" -> b.nper # Zero
          [] w = "nper" ->
                IF r = Zero THEN b.pmt # Zero
                ELSE Add(b.pval, Div(Mul(b.pmt, Add(One, Mul(r, Rat(b.due)))), r)) # Zero
          [] w = "nrate" ->
                Cardinality(RateRoots(b.nper, b.pmt, b.pval, b.fval, b.due)) = 1
          [] OTHER -> TRUE

\* the five values of the first call, the solved one filled in
FirstValues == Assign(First.a, FirstOut.solved, FirstOut.result)

IsTvmmList == call.fn = "tvmm_list"
\* two of the list-valued arguments the solver works with differ in length
MixedLengths(a) == Cardinality(ListLens(a)) > 1

\* C11: a tvmm call whose list-valued arguments differ in length fails with a
\* length-mismatch error and returns no result, also when one of the lists
\* has length 1.
C11_LengthMismatch ==
    IsTvmmList /\ NumNoneP(call.a) <= 1 /\ MixedLengths(call.a) =>
        /\ out.status = "raised"
        /\ out.error \in {BroadcastError, ListError}
        /\ out.result = <<>>

IsIconv == call.fn = "iconv"
Supplied(a) == Cardinality({f \in {"nrate", "erate", "prate"} : a[f] # None})

\* C12: iconv raises, returning nothing and converting nothing, unless
\* exactly one of nrate, erate, prate is supplied; with exactly one it
\* returns.
C12_ExactlyOneRate ==
    IsIconv =>
        /\ Supplied(call.a) # 1 =>
              /\ out.status = "raised" /\ out.error = IconvError
              /\ out.first = None /\ out.second = None
        /\ Supplied(call.a) = 1 => out.status = "returned"

C12_Witness == IsIconv /\ Supplied(call.a) = 3 /\ out.status = "raised"

\* C13: for a nominal rate x > -100 and pyr p > 0, iconv(nrate = x, pyr = p)
\* returns (effective, periodic) and iconv(erate = effective, pyr = p)
\* returns (x, periodic).
C13_RoundTrip ==
    IsIconv /\ First.fn = "iconv" /\ First.a.nrate[1] > -100 =>
        /\ FirstOut.status = "returned" /\ FirstOut.given = "nrate"
        /\ out.status = "returned"
        /\ out.first = First.a.nrate
        /\ out.second = FirstOut.second

C13_Witness ==
    /\ IsIconv /\ First.fn = "iconv" /\ First.a.nrate = Rat(50)
    /\ First.a.pyr = 2 /\ out.first = Rat(50)

\* the first call has been made again
Repeated == Len(prev) = 3

IsAfterTax == call.fn = "after_tax_cashflow"

\* C15: after_tax_cashflow returns, period by period, cflo[t] * tax_rate[t]
\* / 100 where cflo[t] > 0 and 0 elsewhere, and the cashflow handed in keeps
\* its values.
C15_AfterTax ==
    IsAfterTax /\ Len(call.cflo) = Len(call.tax_rate) =>
        /\ out.status = "returned"
        /\ Len(out.result) = Len(call.cflo)
        /\ \A t \in 1..Len(call.cflo) :
              out.result[t] = IF call.cflo[t][1] > 0
                              THEN Div(Mul(call.cflo[t], call.tax_rate[t]), Hundred)
                              ELSE Zero
        /\ out.cflo = call.cflo

C15_Witness ==
    /\ IsAfterTax /\ out.status = "returned" /\ Len(call.cflo) = 3
    /\ call.cflo[1] = Rat(-4) /\ call.cflo[2] = Rat(4) /\ call.tax_rate[2] = Rat(10)
    /\ out.result[2] = <<2, 5>>

\* the call supplies a payment of exactly zero and leaves one parameter unset
ZeroPmtCall == call.a.pmt = Zero /\ Unset(call.a) = 1
\* the periods in which a payment is made
PaymentPeriods == IF call.a.due = 0 THEN 1..out.nper ELSE 0..(out.nper - 1)

\* C16: a supplied pmt of exactly zero, with one other parameter unset, is
\* replaced by 0.0000001 before solving: tvmm returns what it returns for
\* pmt = 0.0000001, and the payment entries of amortize are 0.0000001 in the
\* periods in which a payment is made.
C16_ZeroPmtIsSmallPmt ==
    /\ IsTvmm /\ ZeroPmtCall =>
          out = Tvmm([call.a EXCEPT !.pmt = SmallPmt], call.o)
    /\ IsAmortize /\ ZeroPmtCall =>
          /\ out = Amortize([call.a EXCEPT !.pmt = SmallPmt], call.o)
          /\ out.status = "returned" =>
                \A t \in PaymentPeriods : out.payment[t] = SmallPmt

C16_Witness ==
    /\ Built /\ ZeroPmtCall /\ out.nper >= 2 /\ out.returned
    /\ IsNone(call.a.fval) /\ Resolved.fval[2] = SmallPmtDen
    /\ out.payment[1] = SmallPmt

\* amortize solves the payment with tvmm and walks a supplied whole nper
SolvedPmtCall ==
    Built /\ AmortizeTarget(call.a) = "pmt" /\ IsIntegral(call.a.nper)

\* C18 as stated: with the payment solved by tvmm and a whole nper, the
\* schedule closes on balance[nper] = -fval, for due = 0 and due = 1.
C18_Closure == SolvedPmtCall => out.balance[out.nper] = Neg(call.a.fval)

\* C18 amended: the same for nper >= 1 (with nper = 0 no payment is made and
\* the only balance is pval).
C18_ClosureFromOnePeriod ==
    SolvedPmtCall /\ out.nper >= 1 => out.balance[out.nper] = Neg(call.a.fval)

C18_Witness ==
    /\ SolvedPmtCall /\ out.nper >= 2 /\ call.a.due = 1
    /\ call.a.nrate # Zero /\ call.a.fval # Zero /\ call.a.pval # Zero
    /\ out.balance[out.nper] = Neg(call.a.fval)
    /\ out.balance[1] # out.balance[out.nper]

IsVars2list == call.fn = "vars2list"

\* C17: vars2list raises or returns one list per parameter, all of the same
\* length, a list parameter as given and a scalar replicated; also when a
\* list parameter is empty or has length 1.
C17_SameLength ==
    IsVars2list /\ out.status = "returned" =>
        /\ DOMAIN out.result = DOMAIN call.params
        /\ \A i, j \in DOMAIN out.result : Len(out.result[i]) = Len(out.result[j])
        /\ \A i \in DOMAIN out.result :
              IF IsListP(call.params[i]) THEN out.result[i] = call.params[i].v
              ELSE \A k \in DOMAIN out.result[i] : out.result[i][k] = call.params[i].v[1]

====
